---- MODULE Spec2Model ----
(***************************************************************************)
(* slush, the Simple Linux UART Shell (src/slush.c), as a state machine.   *)
(*                                                                         *)
(* The program parses its command line, maps the requested bit rate to a   *)
(* termios constant, opens and configures the serial device, and then      *)
(* loops: poll() on the console and the serial descriptor, forward one     *)
(* console line to the serial descriptor (with optional newline            *)
(* remapping), check the serial descriptor for POLLERR / POLLHUP, and      *)
(* render one serial read in the active display mode.                      *)
(*                                                                         *)
(* Bytes are their character codes; a string is a sequence of bytes.       *)
(* C array index i is index i + 1 of the sequence that models the array.   *)
(***************************************************************************)
EXTENDS Integers, Sequences, FiniteSets, TLC

VARIABLES
    pc,        \* position in main(): "getopt","baud","open","poll","console","fault","reply","again","exit"
    argv,      \* the options of the command line, as given
    args,      \* the options getopt() has not returned yet
    annotate,  \* static int annotate
    debug,     \* static int debug
    trace,     \* static int trace
    bps,       \* int bps
    icrnl,     \* int icrnl
    nlmap,     \* int nlmap
    hwfc,      \* int hwfc
    baud,      \* tcflag_t baud
    device,    \* char *device
    status,    \* the process's exit status, -1 while it runs
    fd,        \* the serial descriptor, -1 when none is open
    path,      \* the name open() was called with, <<>> when it was not called
    tty,       \* the attributes tcsetattr() applied to the device, NoTty when none
    flushed,   \* tcflush(fd, TCIFLUSH) has been called
    num,       \* what the last poll() returned
    revents,   \* <<pfd[0].revents, pfd[1].revents>> as the poll() of this turn stored them
    eof,       \* the console input has ended: the next fgets() returns NULL
    ops,       \* the calls made since the last poll(), in order
    line,      \* what fgets() stored in buf since the last poll()
    wire,      \* the bytes handed to write(fd, ...) since the last poll()
    cnt,       \* what read() returned since the last poll()
    reply,     \* the bytes read() stored in reply since the last poll()
    out,       \* what read_reply() printed since the last poll()
    oob,       \* the out-of-range buf indices accessed since the last poll()
    clock,     \* CLOCK_MONOTONIC, in nanoseconds
    lastts,    \* static uint64_t lastts of trace_show_reply()
    total,     \* static uint64_t total of trace_show_reply()
    first      \* history: the first value timestamp() returned to trace_show_reply(), -1 before

vars == <<pc, argv, args, annotate, debug, trace, bps, icrnl, nlmap, hwfc, baud, device,
          status, fd, path, tty, flushed, num, revents, eof, ops, line, wire, cnt,
          reply, out, oob, clock, lastts, total, first>>

----------------------------------------------------------------------------
(* Program constants *)

BPS == 115200
BUFLEN == 1024
\* "/dev/ttyS0"
DEVICE == <<47, 100, 101, 118, 47, 116, 116, 121, 83, 48>>

NUL == 0
NL == 10
CR == 13
SP == 32

(* Bounds of the model *)

\* Console lines carry at most MaxBody bytes before their newline
\* (besides the lines that fill buf).
MaxBody == 1
\* Serial reads return at most MaxChunk bytes (besides the read that fills reply).
MaxChunk == 2
\* The monotonic clock stops advancing after MaxClockTicks ticks of TickNs.
MaxClockTicks == 5

----------------------------------------------------------------------------
(* Strings *)

RECURSIVE SeqsUpTo(_, _)
\* The sequences over S of length at most n.
SeqsUpTo(S, n) ==
    IF n = 0 THEN {<<>>}
    ELSE LET shorter == SeqsUpTo(S, n - 1)
         IN  shorter \cup {Append(s, b) : s \in {t \in shorter : Len(t) = n - 1}, b \in S}

\* n copies of byte b.
Fill(b, n) == [i \in 1..n |-> b]

\* A char array of BUFLEN bytes that was zeroed and then received s at its start.
Zeroed(s) == [i \in 1..BUFLEN |-> IF i <= Len(s) THEN s[i] ELSE NUL]

\* TRUE when the array holds a NUL.
Terminated(b) == \E i \in 1..Len(b) : b[i] = NUL

\* strlen() of an array that holds a NUL.
StrLen(b) == (CHOOSE i \in 1..Len(b) : b[i] = NUL /\ \A j \in 1..(i - 1) : b[j] # NUL) - 1

RECURSIVE AtoiDigits(_, _)
AtoiDigits(s, acc) ==
    IF s = <<>> \/ Head(s) \notin 48..57 THEN acc
    ELSE AtoiDigits(Tail(s), acc * 10 + (Head(s) - 48))

\* atoi(): an optional sign, then the leading decimal digits.
Atoi(s) ==
    IF s # <<>> /\ Head(s) = 45 THEN 0 - AtoiDigits(Tail(s), 0)
    ELSE IF s # <<>> /\ Head(s) = 43 THEN AtoiDigits(Tail(s), 0)
    ELSE AtoiDigits(s, 0)

RECURSIVE Decimal(_)
\* The decimal digits of a natural number, as typed on the command line.
Decimal(n) == IF n < 10 THEN <<48 + n>> ELSE Append(Decimal(n \div 10), 48 + (n % 10))

----------------------------------------------------------------------------
(* The command line *)

\* What main() returns becomes the exit status modulo 256.
ExitStatus(ret) == ret % 256

\* The value of char *device before anything is assigned to it.
Indeterminate == <<256>>

\* "/dev/ttyUSB0"
UserDevice == <<47, 100, 101, 118, 47, 116, 116, 121, 85, 83, 66, 48>>

Opt(o) == [opt |-> o, arg |-> <<>>]
OptArg(o, a) == [opt |-> o, arg |-> a]

SupportedBps == {1200, 1800, 2400, 4800, 9600, 19200, 38400, 57600, 115200}

\* The -b arguments tried: every supported rate, some unsupported ones, "-1" and "x".
BpsArgs == {Decimal(n) : n \in SupportedBps \cup {0, 300, 9601, 230400}} \cup {<<45, 49>>, <<120>>}

\* The -o arguments tried: "0" .. "3".
NlmapArgs == {Decimal(n) : n \in 0..3}

FlagOpts(S) ==
    (IF "a" \in S THEN <<Opt("a")>> ELSE <<>>)
    \o (IF "d" \in S THEN <<Opt("d")>> ELSE <<>>)
    \o (IF "t" \in S THEN <<Opt("t")>> ELSE <<>>)

\* The command lines tried, each the sequence of options getopt() returns.
CommandLines ==
    {<<OptArg("p", UserDevice)>> \o FlagOpts(S) : S \in SUBSET {"a", "d", "t"}}
    \cup {<<OptArg("p", UserDevice), OptArg("o", a)>> : a \in NlmapArgs}
    \cup {<<OptArg("p", UserDevice), OptArg("b", a)>> : a \in BpsArgs}
    \cup {<<OptArg("p", UserDevice), Opt("c")>>, <<OptArg("p", UserDevice), Opt("f")>>}
    \cup {<<>>, <<OptArg("b", Decimal(9600))>>, <<Opt("h")>>, <<Opt("?")>>,
          <<Opt("t"), Opt("h")>>}

\* struct termios after memset(&nterm, 0, sizeof(nterm)).
NoTty == [iflag |-> {}, oflag |-> {}, cflag |-> {}, lflag |-> {}, vtime |-> 0, vmin |-> 0]

Init ==
    /\ pc = "getopt"
    /\ argv \in CommandLines
    /\ args = argv
    /\ annotate = 0 /\ debug = 0 /\ trace = 0
    /\ bps = BPS /\ icrnl = 0 /\ nlmap = 0 /\ hwfc = 0
    /\ baud = "B9600"
    /\ device = Indeterminate
    /\ status = -1
    /\ fd = -1 /\ path = <<>> /\ tty = NoTty /\ flushed = FALSE
    /\ num = 1 /\ revents = <<{}, {}>> /\ eof = FALSE
    /\ ops = <<>> /\ line = <<>> /\ wire = <<>> /\ cnt = 0 /\ reply = <<>> /\ out = <<>> /\ oob = {}
    /\ clock = 0 /\ lastts = 0 /\ total = 0 /\ first = -1

loopVars == <<num, revents, eof, ops, line, wire, cnt, reply, out, oob, clock, lastts, total, first>>
serialVars == <<fd, path, tty, flushed>>
optVars == <<argv, annotate, debug, trace, bps, icrnl, nlmap, hwfc, device>>

\* return ret from main().
Return(ret) == pc' = "exit" /\ status' = ExitStatus(ret)

\* One turn of while (EOF != (c = getopt(...))) and its switch.
Getopt ==
    /\ pc = "getopt"
    /\ UNCHANGED <<baud, serialVars, loopVars>>
    /\ IF args = <<>>
       THEN /\ pc' = "baud"
            /\ UNCHANGED <<args, status, optVars>>
       ELSE LET o == Head(args) IN
            /\ args' = Tail(args)
            /\ UNCHANGED argv
            /\ annotate' = IF o.opt = "a" THEN 1 ELSE annotate
            /\ bps' = IF o.opt = "b" THEN Atoi(o.arg) ELSE bps
            /\ icrnl' = IF o.opt = "c" THEN 1 ELSE icrnl
            /\ debug' = IF o.opt = "d" THEN 1 ELSE debug
            /\ hwfc' = IF o.opt = "f" THEN 1 ELSE hwfc
            /\ nlmap' = IF o.opt = "o" THEN Atoi(o.arg) ELSE nlmap
            /\ device' = IF o.opt = "p" THEN o.arg ELSE device
            /\ trace' = IF o.opt = "t" THEN 1 ELSE trace
            /\ IF o.opt = "h" THEN Return(0)
               ELSE IF o.opt \notin {"a", "b", "c", "d", "f", "o", "p", "t"} THEN Return(-1)
               ELSE UNCHANGED <<pc, status>>

\* Mutant: case 19200 sets B9600.
BaudConstant_Slip(b) ==
    CASE b = 1200 -> "B1200"
      [] b = 1800 -> "B1800"
      [] b = 2400 -> "B2400"
      [] b = 4800 -> "B4800"
      [] b = 9600 -> "B9600"
      [] b = 19200 -> "B9600"
      [] b = 38400 -> "B38400"
      [] b = 57600 -> "B57600"
      [] b = 115200 -> "B115200"

\* The termios constant of a supported rate.
BaudConstant(b) ==
    CASE b = 1200 -> "B1200"
      [] b = 1800 -> "B1800"
      [] b = 2400 -> "B2400"
      [] b = 4800 -> "B4800"
      [] b = 9600 -> "B9600"
      [] b = 19200 -> "B19200"
      [] b = 38400 -> "B38400"
      [] b = 57600 -> "B57600"
      [] b = 115200 -> "B115200"

\* The cases of switch (bps) other than default.
BaudCases == {1200, 1800, 2400, 4800, 9600, 19200, 38400, 57600, 115200}

\* switch (bps): a supported rate sets baud, any other value is a usage error.
SelectBaud ==
    /\ pc = "baud"
    /\ UNCHANGED <<args, optVars, serialVars, loopVars>>
    /\ IF bps \in BaudCases
       THEN baud' = BaudConstant(bps) /\ pc' = "open" /\ UNCHANGED status
       ELSE Return(-1) /\ UNCHANGED baud

\* Mutant: canonical mode is left on in trace mode.
Attributes_DebugOnly ==
    [iflag |-> {"IGNPAR"} \cup (IF icrnl # 0 THEN {"ICRNL"} ELSE {}),
     oflag |-> {},
     cflag |-> {baud, "CS8", "CLOCAL", "CREAD"} \cup (IF hwfc # 0 THEN {"CRTSCTS"} ELSE {}),
     lflag |-> IF debug = 0 THEN {"ICANON"} ELSE {},
     vtime |-> 10,
     vmin |-> 1]

\* The attributes open_serial() builds in nterm.
Attributes ==
    [iflag |-> {"IGNPAR"} \cup (IF icrnl # 0 THEN {"ICRNL"} ELSE {}),
     oflag |-> {},
     cflag |-> {baud, "CS8", "CLOCAL", "CREAD"} \cup (IF hwfc # 0 THEN {"CRTSCTS"} ELSE {}),
     lflag |-> IF debug = 0 /\ trace = 0 THEN {"ICANON"} ELSE {},
     vtime |-> 10,
     vmin |-> 1]

\* Mutant: the descriptor open_serial() returns is not checked.
OpenFailed_Unchecked(f) == FALSE

\* if (fd < 0), in open_serial() and again in main().
OpenFailed(f) == f < 0

\* fd = open_serial(device, baud, icrnl, hwfc); if (fd < 0) return -1;
\* open() succeeds or fails; only a successful open is flushed and configured.
OpenSerial ==
    /\ pc = "open"
    /\ UNCHANGED <<args, optVars, baud, loopVars>>
    /\ path' = device
    /\ \E opened \in BOOLEAN :
        /\ fd' = IF opened THEN 3 ELSE -1
        /\ flushed' = opened
        /\ tty' = IF opened THEN Attributes ELSE tty
        /\ IF OpenFailed(fd')
           THEN Return(-1)
           ELSE pc' = "poll" /\ UNCHANGED status

----------------------------------------------------------------------------
(* The loop: poll() *)

\* The events poll() reports for the console and for the serial descriptor.
ConsoleFlags == {"POLLIN", "POLLHUP"}
SerialFlags == {"POLLIN", "POLLPRI", "POLLERR", "POLLHUP"}

\* pfd[i].revents & (POLLIN|POLLPRI)
Readable(r) == r \cap {"POLLIN", "POLLPRI"} # {}

\* What is observed of one turn of the loop is cleared when the next turn starts.
ClearTurn ==
    /\ revents' = <<{}, {}>>
    /\ ops' = <<>> /\ line' = <<>> /\ wire' = <<>> /\ cnt' = 0 /\ reply' = <<>>
    /\ out' = <<>> /\ oob' = {}

\* Mutant: the check of a zero return is missing.
PollFatal_ErrorOnly(n) == n < 0

\* if (num < 0) ... return -1; if (!num) ... return -1;
PollFatal(n) == n < 0 \/ n = 0

\* num = poll(pfd, 2, -1) and the two checks of num.  poll() fails and leaves
\* revents alone, or stores the events of both descriptors and returns how many
\* of them have any.  A console at end of input is reported readable or hung up.
Poll ==
    /\ pc = "poll"
    /\ UNCHANGED <<args, optVars, baud, serialVars, ops, line, wire, cnt, reply, out,
                   oob, clock, lastts, total, first>>
    /\ \/ /\ num' = -1
          /\ UNCHANGED <<revents, eof>>
       \/ \E r0 \in SUBSET ConsoleFlags, r1 \in SUBSET SerialFlags, e \in BOOLEAN :
          /\ eof => e
          /\ e => r0 \cap {"POLLIN", "POLLHUP"} # {}
          /\ eof' = e
          /\ revents' = <<r0, r1>>
          /\ num' = (IF r0 # {} THEN 1 ELSE 0) + (IF r1 # {} THEN 1 ELSE 0)
    /\ IF PollFatal(num')
       THEN Return(-1)
       ELSE pc' = "console" /\ UNCHANGED status

----------------------------------------------------------------------------
(* The loop: the console line *)

\* The bytes a console line carries before its newline.
LineBytes == {NUL, 65}

Bodies == SeqsUpTo(LineBytes, MaxBody)

\* "hello\n"
Hello == <<104, 101, 108, 108, 111, NL>>

\* What fgets(buf, sizeof(buf), stdin) can store: a line with its newline, a last
\* line that ends without one, and the lines that take BUFLEN - 1 bytes or nearly.
ConsoleLines ==
    {Append(b, NL) : b \in Bodies}
    \cup (Bodies \ {<<>>})
    \cup {Hello}
    \cup {Fill(65, BUFLEN - 1), Append(Fill(65, BUFLEN - 2), NL), Append(Fill(65, BUFLEN - 3), NL)}

\* fgets() stops short of a newline and of BUFLEN - 1 bytes only at the end of input.
LastLine(l) == l[Len(l)] # NL /\ Len(l) < BUFLEN - 1

\* The bytes that follow a char array in memory, up to the first NUL.
Beyond == {<<>>, <<71>>}

\* The string a char array holds, as strlen() and "%s" see it: the bytes before
\* the first NUL, and past the end of an array that holds none.
Strings(b) ==
    IF Terminated(b) THEN {SubSeq(b, 1, StrLen(b))} ELSE {b \o g : g \in Beyond}

\* buf[strlen(buf)-1] = '\r'; an empty string stores outside buf and leaves it alone.
StoreCR(b) == IF StrLen(b) >= 1 THEN [b EXCEPT ![StrLen(b)] = CR] ELSE b

\* buf[strlen(buf)] = '\n';
StoreNL(b) == [b EXCEPT ![StrLen(b) + 1] = NL]

\* switch (nlmap) on buf as memset() and fgets() left it.
Remapped(l, m) ==
    CASE m = 1 -> StoreCR(Zeroed(l))
      [] m = 2 -> StoreNL(StoreCR(Zeroed(l)))
      [] OTHER -> Zeroed(l)

\* The indices outside 0 .. BUFLEN-1 that the remapping and the strlen() of the
\* write touch.
OutOfRange(l, m) ==
    (IF m \in {1, 2} /\ StrLen(Zeroed(l)) = 0 THEN {-1} ELSE {})
    \cup (IF Terminated(Remapped(l, m)) THEN {} ELSE {BUFLEN})

\* if (pfd[0].revents & (POLLIN|POLLPRI)) { memset; fgets; switch (nlmap); write }.
\* A store outside buf goes unnoticed or kills the process.
Console ==
    /\ pc = "console"
    /\ UNCHANGED <<args, optVars, baud, serialVars, num, revents, cnt, reply, out,
                   clock, lastts, total, first>>
    /\ IF ~Readable(revents[1])
       THEN /\ pc' = "fault"
            /\ UNCHANGED <<status, eof, ops, line, wire, oob>>
       ELSE IF eof
       THEN /\ ops' = ops \o <<"memset", "fgets">>
            /\ Return(0)
            /\ UNCHANGED <<eof, line, wire, oob>>
       ELSE \E l \in ConsoleLines :
            /\ line' = l
            /\ eof' = LastLine(l)
            /\ oob' = OutOfRange(l, nlmap)
            /\ \/ /\ wire' \in Strings(Remapped(l, nlmap))
                  /\ ops' = ops \o <<"memset", "fgets", "write">>
                  /\ pc' = "fault"
                  /\ UNCHANGED status
               \/ /\ -1 \in oob'
                  /\ wire' = <<>>
                  /\ ops' = ops \o <<"memset", "fgets">>
                  /\ pc' = "exit"
                  /\ status' = 128 + 11

\* Mutant: the check of POLLHUP is missing.
SerialFault_ErrOnly(r) == "POLLERR" \in r

\* if (pfd[1].revents & POLLERR) or if (pfd[1].revents & POLLHUP)
SerialFault(r) == "POLLERR" \in r \/ "POLLHUP" \in r

\* The two checks of pfd[1].revents: POLLERR, then POLLHUP, each return -1.
Fault ==
    /\ pc = "fault"
    /\ UNCHANGED <<args, optVars, baud, serialVars, num, revents, eof, line, wire, cnt,
                   reply, out, oob, clock, lastts, total, first>>
    /\ ops' = Append(ops, "check")
    /\ IF SerialFault(revents[2])
       THEN Return(-1)
       ELSE pc' = "reply" /\ UNCHANGED status

----------------------------------------------------------------------------
(* The loop: the serial read and its rendering *)

\* The bytes a serial read returns.
ChunkBytes == {NUL, 65}

\* What read(fd, reply, sizeof(reply)) can store: nothing, a few bytes, a line
\* with its newline, bytes around a NUL, DEL and a byte above 127, or BUFLEN bytes.
Chunks ==
    SeqsUpTo(ChunkBytes, MaxChunk)
    \cup {<<65, NL>>, <<65, NUL, 66>>, <<127, 255>>, Fill(65, BUFLEN)}

\* isprint() in the C locale (no setlocale() is called); a byte above 127, which
\* reaches it as a negative char, is not printable.
IsPrint(c) == c >= 32 /\ c <= 126

\* printf("%c", isprint(c) ? c : '.') over the bytes read.
Ascii(d) == [i \in 1..Len(d) |-> IF IsPrint(d[i]) THEN d[i] ELSE 46]

\* Mutant: "%02hhX", the digits in upper case.
HexDigit_Upper(n) == IF n < 10 THEN 48 + n ELSE 55 + n

\* One lowercase hexadecimal digit.
HexDigit(n) == IF n < 10 THEN 48 + n ELSE 87 + n

\* printf("%02hhx", buf[i]) over the bytes read.
Hex(d) ==
    [i \in 1..(2 * Len(d)) |->
        IF i % 2 = 1 THEN HexDigit(d[(i + 1) \div 2] \div 16)
        ELSE HexDigit(d[i \div 2] % 16)]

\* One tick of the model's clock: 50 ms, in nanoseconds.
TickNs == 50 * 1000000

\* By how many ticks CLOCK_MONOTONIC can have advanced between two readings.
Advances == {0, 1, 3}

\* The struct timespec clock_gettime() stores for a clock value in nanoseconds.
Timespec(ns) == [tv_sec |-> ns \div 1000000000, tv_nsec |-> ns % 1000000000]

\* timestamp(): the clock in milliseconds.  (The 64-bit arithmetic of the source
\* cannot wrap for the clock values of the model.)
Timestamp(ts) == (ts.tv_sec * 1000000000 + ts.tv_nsec) \div 1000000

\* One call of printf and what it prints.
Printed(f, n, t, d, text) == [fmt |-> f, n |-> n, total |-> t, diff |-> d, text |-> text]

\* debug_show_reply(reply, cnt)
DebugShown(d) == Printed("debug", 0, 0, 0, Hex(d) \o <<SP, SP>> \o Ascii(d) \o <<NL>>)

\* Mutant: the difference is taken the wrong way round.
TraceDiff_Reversed(now) == IF lastts # 0 THEN lastts - now ELSE 0
\* trace_show_reply(reply, cnt), given now = timestamp(): the new values of
\* the statics and what is printed.
TraceDiff(now) == IF lastts # 0 THEN now - lastts ELSE 0

\* Mutant: total = diff in place of total += diff.
TraceTotal_NotAccumulated(now) == TraceDiff(now)
TraceTotal(now) == IF lastts # 0 THEN total + TraceDiff(now) ELSE total
TraceShown(d, now) == Printed("trace", 0, TraceTotal(now), TraceDiff(now), Ascii(d) \o <<NL>>)

\* Mutant: the length of the string is printed in place of cnt.
AnnotateShown_StringLength(n, text) == Printed("annotate", Len(text), 0, 0, text)

\* printf("read %2d bytes {%s}\n", cnt, reply)
AnnotateShown(n, text) == Printed("annotate", n, 0, 0, text)

\* printf("%s", reply)
PlainShown(text) == Printed("plain", 0, 0, 0, text)

\* The if / else if chain of read_reply(): which renderer shows the reply.
Renderer ==
    IF debug # 0 THEN "debug"
    ELSE IF trace # 0 THEN "trace"
    ELSE IF annotate # 0 THEN "annotate"
    ELSE "plain"

\* Mutant: the trace branch lacks its else, so -d -t renders a read twice.
Shown_NoElse(d, now) ==
    CASE debug # 0 /\ trace # 0 -> {<<DebugShown(d), TraceShown(d, now)>>}
      [] debug # 0 /\ trace = 0 -> {<<DebugShown(d)>>}
      [] debug = 0 /\ trace # 0 -> {<<TraceShown(d, now)>>}
      [] debug = 0 /\ trace = 0 /\ annotate # 0 ->
            {<<AnnotateShown(Len(d), text)>> : text \in Strings(Zeroed(d))}
      [] OTHER -> {<<PlainShown(text)>> : text \in Strings(Zeroed(d))}

\* What read_reply() prints for the bytes d, the clock reading now.
Shown(d, now) ==
    CASE Renderer = "debug" -> {<<DebugShown(d)>>}
      [] Renderer = "trace" -> {<<TraceShown(d, now)>>}
      [] Renderer = "annotate" -> {<<AnnotateShown(Len(d), text)>> : text \in Strings(Zeroed(d))}
      [] OTHER -> {<<PlainShown(text)>> : text \in Strings(Zeroed(d))}

\* read_reply(fd) returns -1 when read() fails, without printing.
ReadFailed(c) == c < 0

\* Mutant: the reply is printed before it is read.
ReadCalls_ShownFirst == <<"printf", "fflush", "read">>

\* The calls of a read_reply() whose read() succeeds, in order.
ReadCalls == <<"read", "printf", "fflush">>

\* if (pfd[1].revents & (POLLIN|POLLPRI)) read_reply(fd); what read_reply()
\* returns is dropped.
Reply ==
    /\ pc = "reply"
    /\ pc' = "again"
    /\ UNCHANGED <<args, optVars, baud, serialVars, status, num, revents, eof, line,
                   wire, oob>>
    /\ IF ~Readable(revents[2])
       THEN UNCHANGED <<ops, cnt, reply, out, clock, lastts, total, first>>
       ELSE \E c \in {-1} \cup {Len(d) : d \in Chunks} :
            /\ cnt' = c
            /\ IF ReadFailed(c)
               THEN /\ ops' = Append(ops, "read")
                    /\ out' = <<>>
                    /\ UNCHANGED <<reply, clock, lastts, total, first>>
               ELSE \E d \in {x \in Chunks : Len(x) = c} :
                    /\ reply' = d
                    /\ ops' = ops \o ReadCalls
                    /\ IF Renderer = "trace"
                       THEN \E a \in Advances :
                            LET ns == clock + a * TickNs
                                now == Timestamp(Timespec(ns))
                            IN  /\ ns <= MaxClockTicks * TickNs
                                /\ clock' = ns
                                /\ out' \in Shown(d, now)
                                /\ total' = TraceTotal(now)
                                /\ lastts' = now
                                /\ first' = IF first = -1 THEN now ELSE first
                       ELSE /\ out' \in Shown(d, 0)
                            /\ UNCHANGED <<clock, lastts, total, first>>

\* The closing brace of while (1): the next turn starts.
Again ==
    /\ pc = "again"
    /\ pc' = "poll"
    /\ ClearTurn
    /\ UNCHANGED <<args, optVars, baud, serialVars, status, num, eof, clock, lastts,
                   total, first>>

Next == Getopt \/ SelectBaud \/ OpenSerial \/ Poll \/ Console \/ Fault \/ Reply \/ Again

Spec == Init /\ [][Next]_vars

\* The loop takes its next step as long as it has one.
FairSpec == Spec /\ WF_vars(Next)

----------------------------------------------------------------------------
(* Properties *)

\* The call c was made in this turn of the loop.
Has(c) == \E i \in 1..Len(ops) : ops[i] = c

\* The loop was entered: the device is open.
InLoop == fd >= 0

\* The poll() of this turn reported POLLERR or POLLHUP for the serial descriptor.
FaultReported == InLoop /\ num > 0 /\ revents[2] \cap {"POLLERR", "POLLHUP"} # {}

\* The fgets() of this turn returned NULL.
FgetsNull == Has("fgets") /\ line = <<>>

\* C1: a serial read that returns 0 or fails ends the session with a non-zero
\* exit status; the loop does not go back to poll().
C1_SerialReadFailureFatal ==
    (Has("read") /\ cnt <= 0) => (pc = "exit" /\ status # 0 /\ status # -1)

\* C2 as claimed: when poll() reports POLLERR or POLLHUP for the serial
\* descriptor, the turn ends the loop with a non-zero exit status and without a
\* serial read or rendering, whatever the console reports.
C2_SerialFaultFatalWhateverConsole ==
    (FaultReported /\ pc \notin {"console", "fault"})
        => (pc = "exit" /\ status # 0 /\ ~Has("read") /\ out = <<>>)

\* C2 as amended: when poll() reports POLLERR or POLLHUP for the serial
\* descriptor, the turn ends the loop without a serial read or rendering; the
\* exit status is non-zero unless the console was readable and its fgets()
\* found the end of input, and then it is 0.
C2_SerialFaultEndsLoop ==
    (FaultReported /\ pc \notin {"console", "fault"})
        => /\ pc = "exit"
           /\ ~Has("read") /\ out = <<>>
           /\ (status = 0) <=> FgetsNull

\* C2 witness: a console line was forwarded, then the serial fault ended the loop.
C2_Witness ==
    /\ FaultReported /\ "POLLHUP" \in revents[2] /\ "POLLIN" \in revents[2]
    /\ Has("write") /\ pc = "exit" /\ status = 255

\* C3: once the console input has ended, the loop eventually terminates.
C3_ConsoleEofEndsLoop == (InLoop /\ eof) ~> (pc = "exit")

\* A console line of text: no NUL, and a newline at its end.
TextLine(l) == l[Len(l)] = NL /\ \A i \in 1..Len(l) : l[i] # NUL

\* The line without its newline.
Body(l) == SubSeq(l, 1, Len(l) - 1)

\* The line as the remapping mode m is to put it on the wire.
Mapped(l, m) ==
    CASE m = 0 -> l
      [] m = 1 -> Body(l) \o <<CR>>
      [] m = 2 -> Body(l) \o <<CR, NL>>

\* C4: a console line of text that ends in a newline and fits buf (at most
\* BUFLEN - 1 bytes, as fgets() stores it) is written unchanged in mode 0, with
\* its newline replaced by CR in mode 1, and by CR NL in mode 2.
C4_NewlineRemapping ==
    (Has("write") /\ TextLine(line) /\ nlmap \in {0, 1, 2} /\ Len(line) <= BUFLEN - 1)
        => wire = Mapped(line, nlmap)

\* The part of C4 that holds: the same, for a line whose remapped form leaves
\* room for the terminator in buf ("hello\n" goes out as "hello\n", "hello\r",
\* "hello\r\n").
C4_NewlineRemappingWithRoom ==
    (Has("write") /\ TextLine(line) /\ nlmap \in {0, 1, 2}
       /\ Len(line) + (IF nlmap = 2 THEN 1 ELSE 0) <= BUFLEN - 1)
        => wire = Mapped(line, nlmap)

\* A step in which trace_show_reply() rendered an event.
TraceRendered == pc = "reply" /\ Len(out') = 1 /\ out'[1].fmt = "trace"

\* The clock in milliseconds.
Millis(ns) == ns \div 1000000

\* C5 as claimed: the first trace event renders diff 0 and total 0, and every
\* later one renders the time since the previous event and since the first
\* event, whatever the first timestamp is.
C5_TraceClockAnyStart ==
    [][TraceRendered =>
          IF first = -1
          THEN out'[1].diff = 0 /\ out'[1].total = 0
          ELSE /\ out'[1].diff = Millis(clock') - Millis(clock)
               /\ out'[1].total = Millis(clock') - first]_vars

\* C5 as amended: the same, for a first timestamp other than 0.
C5_TraceClockNonZeroStart ==
    [][TraceRendered =>
          IF first = -1
          THEN out'[1].diff = 0 /\ out'[1].total = 0
          ELSE first # 0 =>
               /\ out'[1].diff = Millis(clock') - Millis(clock)
               /\ out'[1].total = Millis(clock') - first]_vars

\* C5 witness: events at 50, 200 and 250 ms; the third renders diff 50, total 200.
C5_Witness ==
    /\ first = 50 /\ Millis(clock) = 250
    /\ Len(out) = 1 /\ out[1].fmt = "trace" /\ out[1].diff = 50 /\ out[1].total = 200

\* C6: when poll() fails or returns 0 the process exits with a non-zero status,
\* and that turn makes no console read, serial write or serial read.
C6_WaitFailureFatal ==
    (InLoop /\ num <= 0) => (pc = "exit" /\ status # 0 /\ status # -1 /\ ops = <<>>)

\* C6 witness: poll() returned 0 and the process exited with status 255.
C6_Witness == InLoop /\ num = 0 /\ pc = "exit" /\ status = 255 /\ ops = <<>>

\* The termios constant the interface documents for each supported rate.
DocumentedBaud ==
    (1200 :> "B1200") @@ (1800 :> "B1800") @@ (2400 :> "B2400") @@ (4800 :> "B4800")
    @@ (9600 :> "B9600") @@ (19200 :> "B19200") @@ (38400 :> "B38400")
    @@ (57600 :> "B57600") @@ (115200 :> "B115200")

\* C7: a supported rate goes on to open the device with its baud constant; any
\* other value exits with a non-zero status, and open() is never called for it.
C7_BaudValidatedBeforeOpen ==
    /\ [](path # <<>> => /\ bps \in DOMAIN DocumentedBaud
                         /\ baud = DocumentedBaud[bps]
                         /\ (InLoop => DocumentedBaud[bps] \in tty.cflag))
    /\ [][pc = "baud" =>
            IF bps \in DOMAIN DocumentedBaud
            THEN pc' = "open" /\ baud' = DocumentedBaud[bps] /\ status' = -1
            ELSE pc' = "exit" /\ status' \notin {0, -1} /\ path' = <<>>]_vars

\* C7 witness: -b 9601 was rejected before any open().
C7_Witness == bps = 9601 /\ pc = "exit" /\ status = 255 /\ path = <<>> /\ fd = -1

\* C8: the line is canonical exactly when neither debug nor trace is set, and
\* raw exactly when serial reads are rendered by the debug or trace renderer.
C8_CanonicalIffNoDebugNoTrace ==
    /\ InLoop => (("ICANON" \in tty.lflag) <=> (debug = 0 /\ trace = 0))
    /\ out # <<>> => (("ICANON" \notin tty.lflag) <=> (out[1].fmt \in {"debug", "trace"}))

\* C8 witness: -a -t; the line is raw and a read was rendered by the trace renderer.
C8_Witness ==
    /\ annotate = 1 /\ debug = 0 /\ trace = 1
    /\ InLoop /\ tty.lflag = {} /\ out # <<>> /\ out[1].fmt = "trace"

\* The display mode the flags select.
ActiveMode ==
    CASE debug # 0 -> "debug"
      [] debug = 0 /\ trace # 0 -> "trace"
      [] debug = 0 /\ trace = 0 /\ annotate # 0 -> "annotate"
      [] OTHER -> "plain"

\* C9: every serial read is rendered once, in the one display mode the flags
\* select, and the flags do not change once the command line is parsed.
C9_OneDisplayMode ==
    /\ [](out # <<>> => (Len(out) = 1 /\ out[1].fmt = ActiveMode))
    /\ [][pc # "getopt" => UNCHANGED <<annotate, debug, trace>>]_vars

\* C9 witness: -a -d -t; a read was rendered once, by the debug renderer.
C9_Witness ==
    /\ annotate = 1 /\ debug = 1 /\ trace = 1
    /\ Len(out) = 1 /\ out[1].fmt = "debug"

\* The bytes of d before its first NUL.
BeforeNul(d) ==
    SubSeq(d, 1, (CHOOSE i \in 1..Len(d) : d[i] = NUL /\ \A j \in 1..(i - 1) : d[j] # NUL) - 1)

\* C10: for a read that holds a NUL, plain and annotate mode show the bytes
\* before the first NUL, and annotate mode reports the length of the whole read.
C10_EmbeddedNulTruncates ==
    (out # <<>> /\ out[1].fmt \in {"plain", "annotate"} /\ \E i \in 1..Len(reply) : reply[i] = NUL)
        => /\ out[1].text = BeforeNul(reply)
           /\ cnt = Len(reply)
           /\ out[1].fmt = "annotate" => out[1].n = Len(reply)

\* C10 witness: annotate mode showed "A" for the 3 bytes A NUL B.
C10_Witness ==
    /\ reply = <<65, NUL, 66>> /\ Len(out) = 1
    /\ out[1].fmt = "annotate" /\ out[1].n = 3 /\ out[1].text = <<65>>

\* The characters 0-9 and a-f, and the value of one of them.
LowerHex == (48..57) \cup (97..102)
HexValue(c) == IF c <= 57 THEN c - 48 ELSE c - 87

\* C11: the debug rendering of a read of N bytes is 2N lowercase hex digits, two
\* per byte in order and unseparated, then two spaces, then N characters, each
\* the byte itself when it is printable and '.' when it is not; a newline ends
\* the line.
C11_DebugRendering ==
    (out # <<>> /\ out[1].fmt = "debug") =>
        LET n == Len(reply)
            t == out[1].text
        IN  /\ cnt = n
            /\ Len(t) = 3 * n + 3
            /\ \A i \in 1..n :
                  /\ t[2 * i - 1] \in LowerHex /\ t[2 * i] \in LowerHex
                  /\ 16 * HexValue(t[2 * i - 1]) + HexValue(t[2 * i]) = reply[i]
                  /\ t[2 * n + 2 + i] = IF reply[i] \in 32..126 THEN reply[i] ELSE 46
            /\ t[2 * n + 1] = SP /\ t[2 * n + 2] = SP
            /\ t[3 * n + 3] = NL

\* C11 witness: the bytes 0x41 0x0a were rendered as "410a  A.".
C11_Witness ==
    /\ reply = <<65, NL>> /\ Len(out) = 1 /\ out[1].fmt = "debug"
    /\ out[1].text = <<52, 49, 48, 97, SP, SP, 65, 46, NL>>

RECURSIVE PathOption(_, _)
\* The argument of the last -p of a command line, none when it has no -p.
PathOption(cl, none) ==
    IF cl = <<>> THEN none
    ELSE PathOption(Tail(cl), IF Head(cl).opt = "p" THEN Head(cl).arg ELSE none)

\* C12: the name passed to open() is "/dev/ttyS0" for every command line without
\* -p, and the argument of -p for every command line with it.
C12_DevicePathDefaults == path # <<>> => path = PathOption(argv, DEVICE)

\* The part of C12 that holds: a supplied path is the one opened.
C12_SuppliedPathOpened ==
    (path # <<>> /\ PathOption(argv, <<>>) # <<>>) => path = PathOption(argv, <<>>)

\* C13: whatever line fgets() stored, the remapping writes inside buf only and
\* leaves a terminator in buf, so that the length of the write is below BUFLEN.
C13_RemappingBoundsSafe ==
    Has("fgets") => (oob = {} /\ Len(wire) <= BUFLEN - 1)

\* C14: in plain and annotate mode the string shown for a read is a prefix of the
\* bytes that read returned, for reads of 1 to BUFLEN bytes.
C14_ShownIsPrefixOfRead ==
    (out # <<>> /\ out[1].fmt \in {"plain", "annotate"} /\ cnt \in 1..BUFLEN)
        => /\ Len(out[1].text) <= Len(reply)
           /\ out[1].text = SubSeq(reply, 1, Len(out[1].text))

\* The part of C14 that holds: the same, for reads that leave room for a
\* terminator in reply.
C14_ShownIsPrefixOfShortRead ==
    (out # <<>> /\ out[1].fmt \in {"plain", "annotate"} /\ cnt \in 1..(BUFLEN - 1))
        => /\ Len(out[1].text) <= Len(reply)
           /\ out[1].text = SubSeq(reply, 1, Len(out[1].text))

\* C15: every turn of the loop in which poll() returned a positive count reads
\* the console, reads the serial descriptor or ends the loop, whatever events
\* the two descriptors reported; no turn goes back to poll() having done nothing.
C15_NoIdleWakeup ==
    (pc = "again" /\ num > 0) => (Has("fgets") \/ Has("read"))

\* How many times the call c was made in this turn of the loop.
Calls(c) == Cardinality({i \in 1..Len(ops) : ops[i] = c})

\* C16: every console line read is written to the serial descriptor in full, by
\* one write of the remapped line, whatever bytes it holds, NUL included (for
\* lines that leave the remapping room in buf, and in modes 1 and 2 end in a
\* newline).
C16_ConsoleLineForwardedInFull ==
    (/\ Has("fgets") /\ line # <<>> /\ nlmap \in {0, 1, 2}
     /\ Len(line) + (IF nlmap = 2 THEN 1 ELSE 0) <= BUFLEN - 1
     /\ nlmap # 0 => line[Len(line)] = NL)
        => (Calls("write") = 1 /\ wire = Mapped(line, nlmap))

\* The calls one turn of the loop can make, in the order of the source.
TurnOrder == <<"memset", "fgets", "write", "check", "read", "printf", "fflush">>

\* Where the call c stands in TurnOrder.
Place(c) == CHOOSE k \in 1..Len(TurnOrder) : TurnOrder[k] = c

\* C17: one turn of the loop reads at most one console line and makes at most
\* one serial read; the console line is written before the serial descriptor is
\* checked for POLLERR / POLLHUP, and that check precedes the serial read and
\* its rendering.  A turn that found both descriptors readable and no fault has
\* done all of it by the time it ends.
C17_TurnOrdering ==
    /\ \A i, j \in 1..Len(ops) : i < j => Place(ops[i]) < Place(ops[j])
    /\ (pc = "again" /\ Readable(revents[1]) /\ Readable(revents[2]))
         => (Has("write") /\ Has("check") /\ Has("read"))
    /\ Has("printf") => (Has("read") /\ Len(out) = 1)

\* C17 witness: both descriptors were readable; the line was written, the serial
\* descriptor checked, then read and rendered.
C17_Witness ==
    /\ pc = "again" /\ Readable(revents[1]) /\ Readable(revents[2])
    /\ ops = TurnOrder /\ line = Hello /\ reply = <<65, NL>>

\* C18: lastts and total are changed by a trace rendering only, and neither ever
\* decreases.
C18_TraceClockFrame ==
    [][/\ (lastts' # lastts \/ total' # total) => TraceRendered
       /\ lastts' >= lastts
       /\ total' >= total]_vars

\* C18 witness: a console line was forwarded and a read rendered in trace mode
\* at 250 ms; the statics hold 250 and 200.
C18_Witness ==
    /\ Has("write") /\ Len(out) = 1 /\ out[1].fmt = "trace"
    /\ lastts = 250 /\ total = 200

\* C19: when open() fails, no tcflush() and no tcsetattr() is made, the loop is
\* not entered and the process exits with a non-zero status.
C19_OpenFailureClean ==
    /\ (path # <<>> /\ fd < 0)
         => /\ pc = "exit" /\ status \notin {0, -1}
            /\ ~flushed /\ tty = NoTty
            /\ ops = <<>> /\ revents = <<{}, {}>> /\ wire = <<>> /\ out = <<>>
    /\ pc \in {"poll", "console", "fault", "reply", "again"} => fd >= 0

\* C19 witness: the open of the supplied device failed and the process exited
\* with status 255.
C19_Witness ==
    /\ path = UserDevice /\ fd = -1 /\ pc = "exit" /\ status = 255
    /\ ~flushed /\ tty = NoTty

====
